---- MODULE Spec2Model ----
(***************************************************************************)
(* The server side of the RDP man-in-the-middle session, MITMServer        *)
(* (src/rdpy/mitm/server.py).  One instance of the variables is one        *)
(* session.  Every handler of MITMServer is one action; the reactor, the   *)
(* layers of the stack and the client half (MITMClient) are the            *)
(* environment that calls the handlers.                                    *)
(***************************************************************************)
EXTENDS Integers, Sequences, FiniteSets, TLC

(***************************************************************************)
(* Optional values: Python's None is the empty tuple, a present value x is *)
(* the one-element tuple <<x>>.                                            *)
(***************************************************************************)
None == <<>>
Some(x) == <<x>>
Val(o) == o[1]

(* Python's & on non-negative integers. *)
RECURSIVE BitAnd(_, _)
BitAnd(a, b) ==
    IF a = 0 \/ b = 0 THEN 0
    ELSE (a % 2) * (b % 2) + 2 * BitAnd(a \div 2, b \div 2)

(* x & ~mask *)
BitClear(x, mask) == x - BitAnd(x, mask)

(***************************************************************************)
(* Program constants.                                                      *)
(***************************************************************************)
NegotiationProtocols_NONE == 0
NegotiationProtocols_SSL == 1
NegotiationProtocols_HYBRID == 2
ENCRYPTION_128BIT == 2
ENCRYPTION_FIPS == 16
ENCRYPTION_LEVEL_HIGH == 3
ENCRYPTION_LEVEL_FIPS == 4
RT_SUCCESSFUL == 0
RT_USER_REJECTED == 15
UserChannelID == 1004
X224Source == 4660
NegotiationResponseFlags == 0

(***************************************************************************)
(* Bounds of the model.                                                    *)
(***************************************************************************)
MaxConnects == 2
MaxClientInfos == 1

(***************************************************************************)
(* Inputs.  The payload of a Connection Request is the sequence of the     *)
(* fields of a negotiation request, or malformed.                          *)
(***************************************************************************)
NegReq(c, f, rp, cf, ci, r) ==
    [cookie |-> c, flags |-> f, requestedProtocols |-> rp,
     correlationFlags |-> cf, correlationID |-> ci, reserved |-> r]

(* A payload the parsers reject. *)
Malformed == <<>>
IsMalformed(payload) == payload = Malformed

ConnectionRequestPayloads ==
    { <<"mstshash=a", 0, None, None, None, None>>,
      <<"mstshash=b", 8,
        Some(NegotiationProtocols_SSL + NegotiationProtocols_HYBRID),
        Some(1), Some(7), Some(5)>>,
      Malformed }

(* RDPNegotiationRequestPDU.tlsSupported *)
tlsSupported(pdu) ==
    /\ pdu.requestedProtocols # None
    /\ BitAnd(Val(pdu.requestedProtocols), NegotiationProtocols_SSL) # 0

(* The keys: the one the session generates and the real server's. *)
MITMKey == "mitm-key"
ServerKey == "server-key"

ServerCertificate ==
    [signatureAlgorithmID |-> 1, keyAlgorithmID |-> 1, publicKeyType |-> 6,
     publicKey |-> ServerKey, signatureType |-> 8,
     signature |-> "sig", padding |-> "pad"]

SrvData(crp, method, level, cert, io, chans) ==
    [core |-> [clientRequestedProtocols |-> crp],
     security |-> [encryptionMethod |-> method, encryptionLevel |-> level,
                   serverRandom |-> "server-random",
                   serverCertificate |-> cert],
     network |-> [mcsChannelID |-> io, channels |-> chans]]

(* The ServerData blocks the real server answers with. *)
ServerDatas ==
    { SrvData(Some(NegotiationProtocols_NONE), ENCRYPTION_FIPS,
              ENCRYPTION_LEVEL_FIPS, Some(ServerCertificate), 1003,
              <<1005, 1006>>),
      SrvData(Some(NegotiationProtocols_SSL), 0, 0, None, 1003, <<>>) }

(* The Connect-Responses of the real server: an MCS result, and a          *)
(* Conference Create Response around a ServerData.  The refused one        *)
(* carries the ServerData without a certificate.                           *)
ConnectResponses ==
    { [result |-> IF sd.security.serverCertificate = None THEN r ELSE 0,
       calledConnectID |-> 0, domainParams |-> "params",
       payload |-> [nodeID |-> 31219, tag |-> 1, result |-> 0,
                    serverData |-> sd]] :
        r \in {0, 1}, sd \in ServerDatas }

(* The payload of a Connect-Initial: the encryptionMethods and the         *)
(* extEncryptionMethods of its ClientData, or malformed.                   *)
ConnectInitialPayloads ==
    { <<3, 0>>, <<27, ENCRYPTION_FIPS>>, Malformed }

ChannelIDs == {1003, UserChannelID, 1005}
UserIDs == {1002}
RefusalResults == {RT_USER_REJECTED}

(***************************************************************************)
(* The state of one session.                                               *)
(***************************************************************************)
VARIABLES
    tcp,                    \* self.tcp: [state, tls] of the client-facing TCP
    useTLS,                 \* self.useTLS
    originalNegotiationPDU, \* self.originalNegotiationPDU
    targetNegotiationPDU,   \* self.targetNegotiationPDU
    clientConnector,        \* self.clientConnector: 0 for None, else a connector
    client,                 \* self.client: 0 for None, else a client half
    halves,                 \* the outbound connectors and their client halves
    joinRequested,          \* the channels the client half was asked to join
    serverData,             \* self.serverData
    securitySettings,       \* self.securitySettings
    securityLayer,          \* self.securityLayer
    crypterProxy,           \* the RC4CrypterProxy buildChannel made last
    licensingLayer,         \* self.licensingLayer
    rc4RSAKey,              \* self.rc4RSAKey
    fileHandle,             \* self.fileHandle
    last,                   \* the handler that ran last, and its input
    recorder,               \* what self.recorder has recorded
    confirmSent,            \* self.x224 has written a Connection Confirm
    confirmReported,        \* a client half has called onConnectionConfirm
    out,                    \* the PDUs that handler wrote to the client, in order
    handed,                 \* the ClientData that handler handed to the client half
    calls                   \* the calls that handler made, in order

vars ==
    <<tcp, useTLS, originalNegotiationPDU, targetNegotiationPDU,
      clientConnector, client, halves, joinRequested, serverData,
      securitySettings, securityLayer, crypterProxy, licensingLayer,
      rc4RSAKey, fileHandle, recorder, confirmSent, confirmReported, last, out,
      handed, calls>>

(* The variables by what they belong to. *)
negotiationVars == <<originalNegotiationPDU, targetNegotiationPDU>>
transportVars == <<tcp, useTLS>>
outboundVars == <<clientConnector, client, halves>>
channelVars == <<securityLayer, crypterProxy, licensingLayer>>
keyVars == <<rc4RSAKey, fileHandle>>

(* What the handler that ran last wrote and handed on. *)
Wrote(pdus) ==
    /\ out' = pdus
    /\ confirmSent' =
           (confirmSent \/ \E k \in DOMAIN pdus : pdus[k].type = "ConnectionConfirm")
WroteNothing == Wrote(<<>>)

Handler(op, arg) == [op |-> op, arg |-> arg, raised |-> FALSE]
Raised(op, arg) == [op |-> op, arg |-> arg, raised |-> TRUE]

(* A connector returned by reactor.connectTCP, and the client half that    *)
(* buildProtocol makes for it once it is connected.                        *)
NewHalf ==
    [connector |-> "connecting", cancels |-> 0, open |-> FALSE,
     confirmPending |-> FALSE]

(* A client half is connected to the real server and has reported the      *)
(* server's Connection Confirm: it relays what the server sends next.      *)
Relays(i) == halves[i].open /\ ~halves[i].confirmPending
SomeHalfOpen == \E i \in DOMAIN halves : Relays(i)

(* MITMServer.__init__ *)
Init ==
    /\ tcp = [state |-> "open", tls |-> FALSE]
    /\ useTLS = FALSE
    /\ originalNegotiationPDU = None
    /\ targetNegotiationPDU = None
    /\ clientConnector = 0
    /\ client = 0
    /\ halves = <<>>
    /\ joinRequested = {}
    /\ serverData = None
    /\ securitySettings =
           [serverSecurity |-> None, clientRandom |-> None, observer |-> FALSE]
    /\ securityLayer = None
    /\ crypterProxy = None
    /\ licensingLayer = None
    /\ rc4RSAKey = MITMKey
    /\ fileHandle = "open"
    /\ recorder = <<>>
    /\ confirmSent = FALSE
    /\ confirmReported = FALSE
    /\ out = <<>>
    /\ handed = <<>>
    /\ last = Handler("__init__", None)
    /\ calls = <<>>

(* The client-facing transport still delivers what the client wrote: the   *)
(* bytes that arrived with a PDU that made the session disconnect are      *)
(* still parsed, until the connection is reported lost.                    *)
Readable == tcp.state \in {"open", "closing"}

(* MITMServer.getNegotiationPDU *)
getNegotiationPDU == targetNegotiationPDU

(***************************************************************************)
(* Connection Request and the outbound connection.                         *)
(***************************************************************************)

(* RDPNegotiationRequestParser.parse: the request a well-formed payload    *)
(* encodes.                                                                *)
parseNegotiationRequest(payload) ==
    NegReq(payload[1], payload[2], payload[3], payload[4], payload[5],
           payload[6])

(* A variant of TargetRequest that passes the requested protocols on as    *)
(* they came.                                                              *)
TargetRequestUnmasked(original) ==
    NegReq(original.cookie, original.flags, original.requestedProtocols,
           original.correlationFlags, original.correlationID,
           original.reserved)

(* The request sent to the real server: only SSL is kept of the requested  *)
(* protocols.                                                              *)
TargetRequest(original) ==
    NegReq(original.cookie,
           original.flags,
           IF original.requestedProtocols # None
               THEN Some(BitAnd(Val(original.requestedProtocols),
                                NegotiationProtocols_SSL))
               ELSE None,
           original.correlationFlags,
           original.correlationID,
           original.reserved)

(* MITMServer.connectClient: a new connector replaces self.clientConnector *)
connectClient(hs) ==
    [halves |-> Append(hs, NewHalf), clientConnector |-> Len(hs) + 1]

(* A variant of ConnectionRequestWrites that answers the client at once. *)
ConnectionRequestConfirmsAtOnce(original) ==
    <<[type |-> "ConnectionConfirm",
       payload |-> [flags |-> NegotiationResponseFlags,
                    protocols |-> NegotiationProtocols_NONE],
       source |-> X224Source]>>

(* What onConnectionRequest writes to the client: nothing, the answer      *)
(* waits for the real server's.                                            *)
ConnectionRequestWrites(original) == <<>>

(* MITMServer.onConnectionRequest *)
onConnectionRequest(payload) ==
    /\ Readable
    /\ Len(halves) < MaxConnects
    /\ IF IsMalformed(payload)
       THEN /\ last' = Raised("onConnectionRequest", Some(payload))
            /\ calls' = <<"parser.parse">>
            /\ WroteNothing
            /\ UNCHANGED <<negotiationVars, halves, clientConnector>>
       ELSE LET original == parseNegotiationRequest(payload)
                connected == connectClient(halves)
            IN /\ originalNegotiationPDU' = Some(original)
               /\ targetNegotiationPDU' = Some(TargetRequest(original))
               /\ halves' = connected.halves
               /\ clientConnector' = connected.clientConnector
               /\ last' = Handler("onConnectionRequest", Some(payload))
               /\ calls' = <<"parser.parse", "reactor.connectTCP">>
               /\ Wrote(ConnectionRequestWrites(original))
    /\ handed' = <<>>
    /\ UNCHANGED <<transportVars, client, serverData,
                   securitySettings, channelVars, keyVars, confirmReported,
                   joinRequested, recorder>>

(* MITMServer.buildProtocol, called by the reactor when connector i is     *)
(* connected: the new client half replaces self.client, and it opens the   *)
(* negotiation with the real server.                                       *)
buildProtocol(i) ==
    /\ i \in DOMAIN halves
    /\ halves[i].connector = "connecting"
    /\ halves' = [halves EXCEPT ![i].connector = "connected",
                                ![i].open = TRUE,
                                ![i].confirmPending = TRUE]
    /\ client' = i
    /\ last' = Handler("buildProtocol", Some(i))
    /\ calls' = <<"MITMClient">>
    /\ WroteNothing
    /\ handed' = <<>>
    /\ UNCHANGED <<transportVars, negotiationVars, clientConnector, 
                   serverData, securitySettings, channelVars,
                   keyVars,
                   confirmReported, joinRequested,
                   recorder>>

(* ClientFactory.clientConnectionFailed, which MITMServer inherits and     *)
(* does not override: the failure of connector i changes nothing in the    *)
(* session.                                                                *)
clientConnectionFailed(i) ==
    /\ i \in DOMAIN halves
    /\ halves[i].connector = "connecting"
    /\ halves' = [halves EXCEPT ![i].connector = "failed"]
    /\ last' = Handler("clientConnectionFailed", Some(i))
    /\ calls' = <<>>
    /\ WroteNothing
    /\ handed' = <<>>
    /\ UNCHANGED <<transportVars, negotiationVars, clientConnector, client,
                   serverData, securitySettings, channelVars,
                   keyVars, confirmReported,
                   joinRequested, recorder>>

(* The protocols the Connection Confirm advertises. *)
ConfirmProtocols(original) ==
    IF tlsSupported(original) THEN NegotiationProtocols_SSL
    ELSE NegotiationProtocols_NONE

(* x224.sendConnectionConfirm(payload, source): the PDU written. *)
ConnectionConfirm(protocols) ==
    [type |-> "ConnectionConfirm",
     payload |-> [flags |-> NegotiationResponseFlags, protocols |-> protocols],
     source |-> X224Source]

(* Whether onConnectionConfirm wraps the TCP layer in TLS. *)
StartsTLS(original) == tlsSupported(original)

(* A variant of ConnectionConfirmCalls that wraps the transport in TLS      *)
(* before the confirm is written.                                          *)
ConnectionConfirmCallsTLSFirst(original) ==
    (IF StartsTLS(original) THEN <<"tcp.startTLS">> ELSE <<>>)
    \o <<"x224.sendConnectionConfirm">>

(* The calls of onConnectionConfirm, in the order it makes them. *)
ConnectionConfirmCalls(original) ==
    <<"x224.sendConnectionConfirm">>
    \o (IF StartsTLS(original) THEN <<"tcp.startTLS">> ELSE <<>>)

(* MITMServer.onConnectionConfirm, called by client half i when the real   *)
(* server has confirmed the connection.                                    *)
onConnectionConfirm(i) ==
    /\ i \in DOMAIN halves
    /\ halves[i].open
    /\ halves[i].confirmPending
    /\ LET original == Val(originalNegotiationPDU)
       IN /\ Wrote(<<ConnectionConfirm(ConfirmProtocols(original))>>)
          /\ tcp' = [tcp EXCEPT !.tls = @ \/ StartsTLS(original)]
          /\ useTLS' = (useTLS \/ StartsTLS(original))
          /\ calls' = ConnectionConfirmCalls(original)
    /\ halves' = [halves EXCEPT ![i].confirmPending = FALSE]
    /\ confirmReported' = TRUE
    /\ last' = Handler("onConnectionConfirm", Some(i))
    /\ handed' = <<>>
    /\ UNCHANGED <<negotiationVars, clientConnector, client, 
                   serverData, securitySettings, channelVars,
                   keyVars, joinRequested,
                   recorder>>

(***************************************************************************)
(* MCS Connect-Initial and Connect-Response.                               *)
(***************************************************************************)

(* rdpClientConnectionParser.parse: the ClientData of a well-formed        *)
(* Connect-Initial.                                                        *)
parseClientData(payload) ==
    [encryptionMethods |-> payload[1], extEncryptionMethods |-> payload[2]]

(* A variant of ClearFIPS that forgets the extended encryption methods. *)
ClearFIPSFirstOnly(clientData) ==
    [encryptionMethods |->
         BitClear(clientData.encryptionMethods, ENCRYPTION_FIPS),
     extEncryptionMethods |-> clientData.extEncryptionMethods]

(* The ClientData handed to the client half: FIPS removed from both sets   *)
(* of encryption methods.                                                  *)
ClearFIPS(clientData) ==
    [encryptionMethods |->
         BitClear(clientData.encryptionMethods, ENCRYPTION_FIPS),
     extEncryptionMethods |->
         BitClear(clientData.extEncryptionMethods, ENCRYPTION_FIPS)]

(* MITMServer.onConnectInitial *)
onConnectInitial(payload) ==
    /\ Readable
    /\ IF IsMalformed(payload)
       THEN /\ last' = Raised("onConnectInitial", Some(payload))
            /\ calls' = <<"gcc.parse">>
            /\ handed' = <<>>
       ELSE IF client = 0
       THEN /\ last' = Raised("onConnectInitial", Some(payload))
            /\ calls' = <<"gcc.parse", "rdpClientConnectionParser.parse",
                          "clear FIPS">>
            /\ handed' = <<>>
       ELSE /\ handed' = <<ClearFIPS(parseClientData(payload))>>
            /\ last' = Handler("onConnectInitial", Some(payload))
            /\ calls' = <<"gcc.parse", "rdpClientConnectionParser.parse",
                          "clear FIPS", "client.onConnectInitial">>
    /\ WroteNothing
    /\ UNCHANGED <<transportVars, negotiationVars, outboundVars, serverData,
                   securitySettings, channelVars, keyVars, confirmReported,
                   joinRequested, recorder>>

RECURSIVE Reverse(_)
Reverse(s) == IF s = <<>> THEN <<>> ELSE Append(Reverse(Tail(s)), Head(s))

(* RSA: a ciphertext names the key it was made for; decrypting it with     *)
(* another key gives no plaintext the client knows.                        *)
Encrypt(key, plain) == <<key>> \o plain
Decrypt(key, cipher) ==
    IF Head(cipher) = key THEN Tail(cipher) ELSE <<"garbage">>

ClientRandom == <<1, 2>>

(* The Security Exchange PDU of a client that encrypted its random for the *)
(* key of the certificate it was sent.                                     *)
SecurityExchanges ==
    { [clientRandom |-> Reverse(Encrypt(MITMKey, Reverse(ClientRandom)))] }

(* SecuritySettings: the keys go to the observer once the server's         *)
(* security data and the client random are both there.                     *)
DerivedKeys(settings) ==
    IF settings.serverSecurity # None /\ settings.clientRandom # None
    THEN Some([serverRandom |-> Val(settings.serverSecurity).serverRandom,
               clientRandom |-> Val(settings.clientRandom)])
    ELSE None

(* The crypter proxy after the settings changed: it gets the keys if it is *)
(* the observer of the settings.                                           *)
Notify(proxy, settings) ==
    IF settings.observer /\ proxy # None /\ DerivedKeys(settings) # None
    THEN Some([keys |-> DerivedKeys(settings)])
    ELSE proxy

(* A variant of SubstituteCertificate that keeps the server's certificate. *)
SubstituteCertificateKept(cert, key) == cert

(* The certificate sent to the client: the server's, with the public key   *)
(* replaced by the session's key; none if the server sent none.            *)
SubstituteCertificate(cert, key) ==
    IF cert # None
    THEN Some([signatureAlgorithmID |-> Val(cert).signatureAlgorithmID,
               keyAlgorithmID |-> Val(cert).keyAlgorithmID,
               publicKeyType |-> Val(cert).publicKeyType,
               publicKey |-> key,
               signatureType |-> Val(cert).signatureType,
               signature |-> Val(cert).signature,
               padding |-> Val(cert).padding])
    ELSE None

(* A variant of SubstituteMethod that keeps the server's method. *)
SubstituteMethodKept(method) == method

(* The encryption method and level sent to the client: FIPS is avoided. *)
SubstituteMethod(method) ==
    IF method # ENCRYPTION_FIPS THEN method ELSE ENCRYPTION_128BIT
SubstituteLevel(level) ==
    IF level # ENCRYPTION_LEVEL_FIPS THEN level ELSE ENCRYPTION_LEVEL_HIGH

(* The ServerSecurityData sent to the client. *)
SubstituteSecurity(security, key) ==
    [encryptionMethod |-> SubstituteMethod(security.encryptionMethod),
     encryptionLevel |-> SubstituteLevel(security.encryptionLevel),
     serverRandom |-> security.serverRandom,
     serverCertificate |->
         SubstituteCertificate(security.serverCertificate, key)]

(* The core and network blocks sent to the client. *)
SubstituteCore(core, original) ==
    [core EXCEPT !.clientRequestedProtocols = original.requestedProtocols]
SubstituteNetwork(network) == [network EXCEPT !.channels = <<>>]

(* The RDPServerDataPDU kept in self.serverData and sent to the client. *)
SubstituteServerData(sd, original, key) ==
    [core |-> SubstituteCore(sd.core, original),
     security |-> SubstituteSecurity(sd.security, key),
     network |-> SubstituteNetwork(sd.network)]

(* The MCSConnectResponsePDU written to the client: the result, the        *)
(* calledConnectID and the domainParams of the server's, around a          *)
(* Conference Create Response with the cached nodeID, tag and result and   *)
(* the new ServerData.                                                     *)
ConnectResponse(pdu, gcc, sd) ==
    [result |-> pdu.result,
     calledConnectID |-> pdu.calledConnectID,
     domainParams |-> pdu.domainParams,
     payload |-> [nodeID |-> gcc.nodeID, tag |-> gcc.tag,
                  result |-> gcc.result, serverData |-> sd]]

(* mcs.send(pdu): the PDU written. *)
MCSSend(pdu) == [type |-> "MCSConnectResponse", pdu |-> pdu]

(* What onConnectResponse writes when the real server refused. *)
RefusedResponse(pdu) == <<MCSSend(pdu)>>

(* The Conference Create Response the client half has cached when it calls *)
(* onConnectResponse.                                                      *)
conferenceCreateResponse(pdu) ==
    [nodeID |-> pdu.payload.nodeID, tag |-> pdu.payload.tag,
     result |-> pdu.payload.result]

(* MITMServer.onConnectResponse, called by client half i with the real     *)
(* server's Connect-Response and the ServerData parsed from it.            *)
onConnectResponse(i, pdu) ==
    /\ i \in DOMAIN halves
    /\ Relays(i)
    /\ LET sd == pdu.payload.serverData
           new == SubstituteServerData(sd, Val(originalNegotiationPDU),
                                       rc4RSAKey)
       IN IF pdu.result # 0
          THEN /\ Wrote(RefusedResponse(pdu))
               /\ calls' = <<"mcs.send">>
               /\ UNCHANGED <<serverData, securitySettings, crypterProxy>>
          ELSE /\ securitySettings' =
                      [securitySettings EXCEPT
                           !.serverSecurity = Some(new.security)]
               /\ crypterProxy' = Notify(crypterProxy, securitySettings')
               /\ serverData' = Some(new)
               /\ Wrote(<<MCSSend(ConnectResponse(
                              pdu, conferenceCreateResponse(pdu), new))>>)
               /\ calls' = <<"securitySettings.serverSecurityReceived",
                             "mcs.send">>
    /\ last' = Handler("onConnectResponse", Some(pdu))
    /\ handed' = <<>>
    /\ UNCHANGED <<transportVars, negotiationVars, outboundVars,
                   securityLayer, licensingLayer, keyVars, confirmReported,
                   joinRequested, recorder>>

(***************************************************************************)
(* Attach-User and Channel-Join.                                           *)
(***************************************************************************)

(* A variant of AttachUserConfirm that always reports success. *)
AttachUserConfirmAlwaysSuccess(success, param) ==
    [type |-> "AttachUserConfirm", success |-> TRUE, param |-> param]

(* router.sendAttachUserConfirm(success, param): the PDU written. *)
AttachUserConfirm(success, param) ==
    [type |-> "AttachUserConfirm", success |-> success, param |-> param]

(* router.sendChannelJoinConfirm(result, userID, channelID): the PDU       *)
(* written.                                                                *)
ChannelJoinConfirm(result, userID, channelID) ==
    [type |-> "ChannelJoinConfirm", result |-> result, initiator |-> userID,
     channelID |-> channelID]

(* MITMServer.onAttachUserRequest *)
onAttachUserRequest ==
    /\ Readable
    /\ IF client = 0
       THEN /\ last' = Raised("onAttachUserRequest", None)
            /\ calls' = <<>>
       ELSE /\ last' = Handler("onAttachUserRequest", None)
            /\ calls' = <<"client.onAttachUserRequest">>
    /\ WroteNothing
    /\ handed' = <<>>
    /\ UNCHANGED <<transportVars, negotiationVars, outboundVars, serverData,
                   securitySettings, channelVars, keyVars, confirmReported,
                   joinRequested, recorder>>

(* MITMServer.onAttachConfirmed, called by a client half. *)
onAttachConfirmed(userID) ==
    /\ SomeHalfOpen
    /\ Wrote(<<AttachUserConfirm(TRUE, userID)>>)
    /\ last' = Handler("onAttachConfirmed", Some(userID))
    /\ calls' = <<"router.sendAttachUserConfirm">>
    /\ handed' = <<>>
    /\ UNCHANGED <<transportVars, negotiationVars, outboundVars, serverData,
                   securitySettings, channelVars, keyVars, confirmReported,
                   joinRequested, recorder>>

(* MITMServer.onAttachRefused, called by a client half. *)
onAttachRefused(result) ==
    /\ SomeHalfOpen
    /\ Wrote(<<AttachUserConfirm(FALSE, result)>>)
    /\ last' = Handler("onAttachRefused", Some(result))
    /\ calls' = <<"router.sendAttachUserConfirm">>
    /\ handed' = <<>>
    /\ UNCHANGED <<transportVars, negotiationVars, outboundVars, serverData,
                   securitySettings, channelVars, keyVars, confirmReported,
                   joinRequested, recorder>>

(* The result of a Channel-Join Request the session answers itself. *)
LocalJoinResult(channelID) ==
    IF channelID = UserChannelID THEN RT_SUCCESSFUL ELSE RT_USER_REJECTED

(* A variant of IsIOChannel that delegates every channel but the user      *)
(* channel.                                                                *)
IsIOChannelAny(channelID, sd) == channelID # UserChannelID

(* Whether a Channel-Join Request is passed on to the client half. *)
IsIOChannel(channelID, sd) == channelID = sd.network.mcsChannelID

(* MITMServer.onChannelJoinRequest *)
onChannelJoinRequest(pdu) ==
    /\ Readable
    /\ IF serverData = None
       THEN /\ last' = Raised("onChannelJoinRequest", Some(pdu))
            /\ calls' = <<>>
            /\ WroteNothing
            /\ UNCHANGED joinRequested
       ELSE IF IsIOChannel(pdu.channelID, Val(serverData))
       THEN /\ joinRequested' = joinRequested \cup {pdu.channelID}
            /\ last' = Handler("onChannelJoinRequest", Some(pdu))
            /\ calls' = <<"client.onChannelJoinRequest">>
            /\ WroteNothing
       ELSE /\ Wrote(<<ChannelJoinConfirm(LocalJoinResult(pdu.channelID),
                                          pdu.initiator, pdu.channelID)>>)
            /\ last' = Handler("onChannelJoinRequest", Some(pdu))
            /\ calls' = <<"router.sendChannelJoinConfirm">>
            /\ UNCHANGED joinRequested
    /\ handed' = <<>>
    /\ UNCHANGED <<transportVars, negotiationVars, outboundVars, serverData,
                   securitySettings, channelVars, keyVars,
                   confirmReported, recorder>>

(* MITMServer.buildChannel: the layers after the router has asked for the  *)
(* channel, as [securityLayer, crypterProxy, licensingLayer, observer];    *)
(* only the I/O channel is built.                                          *)
\* buildChannel without the subscription of the crypter proxy to the
\* security settings (the setObserver call left out).
buildChannelUnsubscribed(channelID) ==
    IF channelID # Val(serverData).network.mcsChannelID
    THEN [securityLayer |-> securityLayer, crypterProxy |-> crypterProxy,
          licensingLayer |-> licensingLayer,
          observer |-> securitySettings.observer, built |-> FALSE]
    ELSE [securityLayer |->
              Some([kind |-> IF useTLS THEN "TLS" ELSE "NonTLS",
                    securityHeaderExpected |-> useTLS]),
          crypterProxy |-> Some([keys |-> None]),
          licensingLayer |-> Some("RDPLicensingLayer"),
          observer |-> securitySettings.observer, built |-> TRUE]


buildChannel(channelID) ==
    IF channelID # Val(serverData).network.mcsChannelID
    THEN [securityLayer |-> securityLayer, crypterProxy |-> crypterProxy,
          licensingLayer |-> licensingLayer,
          observer |-> securitySettings.observer, built |-> FALSE]
    ELSE [securityLayer |->
              Some([kind |-> IF useTLS THEN "TLS" ELSE "NonTLS",
                    securityHeaderExpected |-> useTLS]),
          crypterProxy |-> Some([keys |-> None]),
          licensingLayer |-> Some("RDPLicensingLayer"),
          observer |-> TRUE, built |-> TRUE]

(* MITMServer.onChannelJoinAccepted, called by a client half for a channel *)
(* it was asked to join; the router writes the confirm and has the channel *)
(* built by buildChannel.                                                  *)
onChannelJoinAccepted(userID, channelID) ==
    /\ SomeHalfOpen
    /\ channelID \in joinRequested
    /\ joinRequested' = joinRequested \ {channelID}
    /\ serverData # None
    /\ Wrote(<<ChannelJoinConfirm(0, userID, channelID)>>)
    /\ LET channel == buildChannel(channelID)
       IN /\ securityLayer' = channel.securityLayer
          /\ crypterProxy' = channel.crypterProxy
          /\ licensingLayer' = channel.licensingLayer
          /\ securitySettings' =
                 [securitySettings EXCEPT !.observer = channel.observer]
          /\ calls' = <<"router.sendChannelJoinConfirm">>
                      \o (IF channel.built THEN <<"buildChannel">> ELSE <<>>)
    /\ last' = Handler("onChannelJoinAccepted",
                       Some([userID |-> userID, channelID |-> channelID]))
    /\ handed' = <<>>
    /\ UNCHANGED <<transportVars, negotiationVars, outboundVars, serverData,
                   keyVars,
                   confirmReported, recorder>>

(* MITMServer.onChannelJoinRefused, called by a client half. *)
onChannelJoinRefused(userID, result, channelID) ==
    /\ SomeHalfOpen
    /\ channelID \in joinRequested
    /\ joinRequested' = joinRequested \ {channelID}
    /\ Wrote(<<ChannelJoinConfirm(result, userID, channelID)>>)
    /\ last' = Handler("onChannelJoinRefused",
                       Some([userID |-> userID, result |-> result,
                             channelID |-> channelID]))
    /\ calls' = <<"router.sendChannelJoinConfirm">>
    /\ handed' = <<>>
    /\ UNCHANGED <<transportVars, negotiationVars, outboundVars, serverData,
                   securitySettings, channelVars, keyVars,
                   confirmReported, recorder>>

(***************************************************************************)
(* The PDUs of the I/O channel.                                            *)
(***************************************************************************)

(* The client random of a Security Exchange PDU. *)
DecryptClientRandom(key, pdu) ==
    Reverse(Decrypt(key, Reverse(pdu.clientRandom)))

(* MITMServer.onSecurityExchangeReceived, called by the security layer. *)
onSecurityExchangeReceived(pdu) ==
    /\ Readable
    /\ securityLayer # None
    /\ LET settings == [securitySettings EXCEPT
                            !.clientRandom =
                                Some(DecryptClientRandom(rc4RSAKey, pdu))]
       IN /\ securitySettings' = settings
          /\ crypterProxy' = Notify(crypterProxy, settings)
    /\ last' = Handler("onSecurityExchangeReceived", Some(pdu))
    /\ calls' = <<"rc4RSAKey.decrypt", "securitySettings.setClientRandom">>
    /\ WroteNothing
    /\ handed' = <<>>
    /\ UNCHANGED <<transportVars, negotiationVars, outboundVars, 
                   serverData, securityLayer, licensingLayer, keyVars,
                   confirmReported, joinRequested,
                   recorder>>

ClientInfos == { [username |-> "user", password |-> "secret", domain |-> ""] }

(* MITMServer.onClientInfoReceived, called by the security layer. *)
onClientInfoReceived(pdu) ==
    /\ Readable
    /\ securityLayer # None
    /\ Cardinality({k \in DOMAIN recorder : recorder[k] = "CLIENT_INFO"})
           < MaxClientInfos
    /\ recorder' = Append(recorder, "CLIENT_INFO")
    /\ last' = Handler("onClientInfoReceived", Some(pdu))
    /\ calls' = <<"recorder.record", "client.onClientInfoReceived">>
    /\ WroteNothing
    /\ handed' = <<>>
    /\ UNCHANGED <<transportVars, negotiationVars, outboundVars, serverData,
                   securitySettings, channelVars, keyVars,
                   confirmReported, joinRequested>>

(* licensingLayer.sendPDU(pdu): the PDU written. *)
LicensingPDU(pdu) == [type |-> "Licensing", licensing |-> pdu]

(* MITMServer.onLicensingPDU, called by a client half with the licensing   *)
(* PDU of the real server.                                                 *)
onLicensingPDU(pdu) ==
    /\ SomeHalfOpen
    /\ IF securityLayer = None
       THEN /\ last' = Raised("onLicensingPDU", Some(pdu))
            /\ calls' = <<>>
            /\ WroteNothing
            /\ UNCHANGED securityLayer
       ELSE /\ securityLayer' =
                   Some([Val(securityLayer) EXCEPT
                             !.securityHeaderExpected = FALSE])
            /\ Wrote(<<LicensingPDU(pdu)>>)
            /\ last' = Handler("onLicensingPDU", Some(pdu))
            /\ calls' = <<"securityHeaderExpected = False",
                          "licensingLayer.sendPDU">>
    /\ handed' = <<>>
    /\ UNCHANGED <<transportVars, negotiationVars, outboundVars, serverData,
                   securitySettings, crypterProxy, licensingLayer, keyVars,
                   confirmReported, joinRequested,
                   recorder>>

(***************************************************************************)
(* Teardown.                                                               *)
(***************************************************************************)

(* TCPLayer.disconnect: the transport is told to close; telling it twice   *)
(* is telling it once.  The reactor reports the connection lost later.     *)
tcpDisconnect(t) ==
    IF t.state = "open" THEN [t EXCEPT !.state = "closing"] ELSE t

(* A variant of disconnectConnector that keeps self.clientConnector after  *)
(* it has disconnected it.                                                 *)
disconnectConnectorKept(cc, hs) ==
    IF cc # 0
    THEN [clientConnector |-> cc,
          halves |-> [hs EXCEPT ![cc].connector = "disconnected",
                                ![cc].cancels = @ + 1,
                                ![cc].open = FALSE],
          calls |-> <<"clientConnector.disconnect">>]
    ELSE [clientConnector |-> cc, halves |-> hs, calls |-> <<>>]

(* MITMServer.disconnectConnector: [clientConnector, halves, calls] after  *)
(* it.  Disconnecting a connector closes the connection of its client      *)
(* half.                                                                   *)
disconnectConnector(cc, hs) ==
    IF cc # 0
    THEN [clientConnector |-> 0,
          halves |-> [hs EXCEPT ![cc].connector = "disconnected",
                                ![cc].cancels = @ + 1,
                                ![cc].open = FALSE],
          calls |-> <<"clientConnector.disconnect">>]
    ELSE [clientConnector |-> cc, halves |-> hs, calls |-> <<>>]

(* A variant of disconnect that leaves the client-facing transport alone. *)
disconnectOutboundOnly(t, cc, hs) ==
    LET after == disconnectConnector(cc, hs)
    IN [tcp |-> t,
        clientConnector |-> after.clientConnector,
        halves |-> after.halves,
        calls |-> after.calls]

(* MITMServer.disconnect: [tcp, clientConnector, halves, calls] after it. *)
disconnect(t, cc, hs) ==
    LET after == disconnectConnector(cc, hs)
    IN [tcp |-> tcpDisconnect(t),
        clientConnector |-> after.clientConnector,
        halves |-> after.halves,
        calls |-> <<"tcp.disconnect">> \o after.calls]

(* A handler that does nothing but call self.disconnect(). *)
Disconnects(op, arg, hs) ==
    LET after == disconnect(tcp, clientConnector, hs)
    IN /\ tcp' = after.tcp
       /\ clientConnector' = after.clientConnector
       /\ halves' = after.halves
       /\ last' = Handler(op, arg)
       /\ calls' = after.calls
       /\ WroteNothing
       /\ handed' = <<>>
       /\ UNCHANGED <<useTLS, negotiationVars, client, serverData,
                      securitySettings, channelVars, keyVars, confirmReported,
                   joinRequested, recorder>>

(* MITMServer.onDisconnectRequest *)
onDisconnectRequest ==
    /\ Readable
    /\ Disconnects("onDisconnectRequest", None, halves)

(* MITMServer.onDisconnectProviderUltimatum *)
onDisconnectProviderUltimatum ==
    /\ Readable
    /\ Disconnects("onDisconnectProviderUltimatum", None, halves)

UnknownHeaders == {255}

(* MITMServer.onUnknownTPKTHeader *)
onUnknownTPKTHeader(header) ==
    /\ Readable
    /\ Disconnects("onUnknownTPKTHeader", Some(header), halves)

(* The real server closes the connection of client half i, and the client  *)
(* half disconnects the session.                                           *)
serverDisconnected(i) ==
    /\ i \in DOMAIN halves
    /\ halves[i].open
    /\ Disconnects("serverDisconnected", Some(i),
                   [halves EXCEPT ![i].open = FALSE])

(* MITMServer.onDisconnection: [recorder, clientConnector, halves, calls]  *)
(* after it; client.disconnect() closes the connection of the client half. *)
Disconnection(rec, c, cc, hs) ==
    LET closed == IF c # 0 THEN [hs EXCEPT ![c].open = FALSE] ELSE hs
        after == disconnectConnector(cc, closed)
    IN [recorder |-> Append(rec, "CONNECTION_CLOSE"),
        clientConnector |-> after.clientConnector,
        halves |-> after.halves,
        calls |-> <<"recorder.record">>
                  \o (IF c # 0 THEN <<"client.disconnect">> ELSE <<>>)
                  \o after.calls]

(* MITMServer.onDisconnection, called when the transport reports the       *)
(* connection lost: the client closed it (reason "peer"), or the session   *)
(* had told the transport to close (reason "done").                        *)
onDisconnection(reason) ==
    /\ tcp.state = (IF reason = "peer" THEN "open" ELSE "closing")
    /\ tcp' = [tcp EXCEPT !.state = "closed"]
    /\ LET after == Disconnection(recorder, client, clientConnector, halves)
       IN /\ recorder' = after.recorder
          /\ clientConnector' = after.clientConnector
          /\ halves' = after.halves
          /\ calls' = after.calls
    /\ last' = Handler("onDisconnection", Some(reason))
    /\ WroteNothing
    /\ handed' = <<>>
    /\ UNCHANGED <<useTLS, negotiationVars, client, serverData,
                   securitySettings, channelVars, keyVars,
                   confirmReported, joinRequested>>

(***************************************************************************)
(* The session: the client, the reactor and the client halves call the     *)
(* handlers, one at a time.                                                *)
(***************************************************************************)
(* The connectors reactor.connectTCP may return. *)
Halves == 1..MaxConnects
JoinRequests == [initiator : UserIDs, channelID : ChannelIDs]

ClientPDU ==
    \/ \E payload \in ConnectionRequestPayloads : onConnectionRequest(payload)
    \/ \E payload \in ConnectInitialPayloads : onConnectInitial(payload)
    \/ onAttachUserRequest
    \/ \E pdu \in JoinRequests : onChannelJoinRequest(pdu)
    \/ \E pdu \in SecurityExchanges : onSecurityExchangeReceived(pdu)
    \/ \E pdu \in ClientInfos : onClientInfoReceived(pdu)
    \/ onDisconnectRequest
    \/ onDisconnectProviderUltimatum
    \/ \E header \in UnknownHeaders : onUnknownTPKTHeader(header)

Reactor ==
    \/ \E i \in Halves : buildProtocol(i)
    \/ \E i \in Halves : clientConnectionFailed(i)
    \/ \E reason \in {"peer", "done"} : onDisconnection(reason)

ClientHalf ==
    \/ \E i \in Halves : onConnectionConfirm(i)
    \/ \E i \in Halves, pdu \in ConnectResponses : onConnectResponse(i, pdu)
    \/ \E u \in UserIDs : onAttachConfirmed(u)
    \/ \E r \in RefusalResults : onAttachRefused(r)
    \/ \E u \in UserIDs, ch \in ChannelIDs : onChannelJoinAccepted(u, ch)
    \/ \E u \in UserIDs, r \in RefusalResults, ch \in ChannelIDs :
           onChannelJoinRefused(u, r, ch)
    \/ onLicensingPDU("license")
    \/ \E i \in Halves : serverDisconnected(i)

Next == ClientPDU \/ Reactor \/ ClientHalf

Spec == Init /\ [][Next]_vars

(* The reactor reports a connection lost once the session has told the     *)
(* transport to close.                                                     *)
FairSpec == Spec /\ WF_vars(onDisconnection("done"))

(***************************************************************************)
(* Properties of the session.                                              *)
(***************************************************************************)

(* x & NegotiationProtocols.SSL, computed from the bit itself. *)
SSLBitOf(x) ==
    ((x \div NegotiationProtocols_SSL) % 2) * NegotiationProtocols_SSL

(* The negotiation request a Connection Request payload carries, field by  *)
(* field.                                                                  *)
RequestOf(payload) ==
    [cookie |-> payload[1], flags |-> payload[2],
     requestedProtocols |-> payload[3], correlationFlags |-> payload[4],
     correlationID |-> payload[5], reserved |-> payload[6]]

(* C1: after onConnectionRequest has handled a Connection Request R, the   *)
(* request getNegotiationPDU returns has R's requestedProtocols masked to  *)
(* the SSL bit (None when R has none), and R's cookie, flags,              *)
(* correlationFlags, correlationID and reserved.                           *)
C1_TargetIsMaskedCopy ==
    (last.op = "onConnectionRequest" /\ ~last.raised) =>
        LET R == RequestOf(Val(last.arg))
            T == Val(getNegotiationPDU)
        IN /\ getNegotiationPDU # None
           /\ T.requestedProtocols =
                  (IF R.requestedProtocols = None THEN None
                   ELSE Some(SSLBitOf(Val(R.requestedProtocols))))
           /\ T.cookie = R.cookie
           /\ T.flags = R.flags
           /\ T.correlationFlags = R.correlationFlags
           /\ T.correlationID = R.correlationID
           /\ T.reserved = R.reserved

(* A Connection Request asking for SSL and HYBRID has been handled, and    *)
(* the target request asks for SSL only.                                   *)
C1_Witness ==
    /\ last.op = "onConnectionRequest"
    /\ ~last.raised
    /\ Val(last.arg)[3] =
           Some(NegotiationProtocols_SSL + NegotiationProtocols_HYBRID)
    /\ Val(getNegotiationPDU).requestedProtocols =
           Some(NegotiationProtocols_SSL)

(* The ServerData of the Connect-Response the handler that ran last wrote  *)
(* to the client, and the one the real server had sent.                    *)
SentServerData == out[1].pdu.payload.serverData
ReceivedServerData == Val(last.arg).payload.serverData

(* onConnectResponse has just handled a Connect-Response with result 0. *)
AcceptedResponseHandled ==
    /\ last.op = "onConnectResponse"
    /\ Val(last.arg).result = 0

(* C2: for a Connect-Response with result 0, the ServerData sent to the    *)
(* client has the clientRequestedProtocols of the original request, the    *)
(* server's encryption method and level except that FIPS is replaced by    *)
(* 128-bit and by HIGH, and no channels.                                   *)
C2_ServerDataMutated ==
    AcceptedResponseHandled =>
        LET received == ReceivedServerData.security
            sent == SentServerData.security
        IN /\ Len(out) = 1
           /\ out[1].type = "MCSConnectResponse"
           /\ SentServerData.core.clientRequestedProtocols =
                  Val(originalNegotiationPDU).requestedProtocols
           /\ sent.encryptionMethod # ENCRYPTION_FIPS
           /\ received.encryptionMethod = ENCRYPTION_FIPS =>
                  sent.encryptionMethod = ENCRYPTION_128BIT
           /\ received.encryptionMethod # ENCRYPTION_FIPS =>
                  sent.encryptionMethod = received.encryptionMethod
           /\ sent.encryptionLevel # ENCRYPTION_LEVEL_FIPS
           /\ received.encryptionLevel = ENCRYPTION_LEVEL_FIPS =>
                  sent.encryptionLevel = ENCRYPTION_LEVEL_HIGH
           /\ received.encryptionLevel # ENCRYPTION_LEVEL_FIPS =>
                  sent.encryptionLevel = received.encryptionLevel
           /\ SentServerData.network.channels = <<>>
           /\ serverData = Some(SentServerData)

(* A FIPS ServerData with channels, answering a client that had asked for  *)
(* SSL and HYBRID, has been rewritten.                                     *)
C2_Witness ==
    /\ AcceptedResponseHandled
    /\ ReceivedServerData.security.encryptionMethod = ENCRYPTION_FIPS
    /\ ReceivedServerData.security.encryptionLevel = ENCRYPTION_LEVEL_FIPS
    /\ ReceivedServerData.network.channels # <<>>
    /\ ReceivedServerData.core.clientRequestedProtocols
           # Val(originalNegotiationPDU).requestedProtocols
    /\ SentServerData.security.encryptionMethod = ENCRYPTION_128BIT
    /\ SentServerData.core.clientRequestedProtocols =
           Some(NegotiationProtocols_SSL + NegotiationProtocols_HYBRID)

(* The certificate sent to the client and the one the real server sent. *)
SentCertificate == SentServerData.security.serverCertificate
ReceivedCertificate == ReceivedServerData.security.serverCertificate

(* The certificate sent is the received one in everything but the public   *)
(* key, which is the session's key.                                        *)
CertificateSubstituted ==
    /\ SentCertificate # None
    /\ Val(SentCertificate).publicKey = MITMKey
    /\ Val(SentCertificate).publicKey = rc4RSAKey
    /\ Val(SentCertificate).signatureAlgorithmID =
           Val(ReceivedCertificate).signatureAlgorithmID
    /\ Val(SentCertificate).keyAlgorithmID =
           Val(ReceivedCertificate).keyAlgorithmID
    /\ Val(SentCertificate).publicKeyType =
           Val(ReceivedCertificate).publicKeyType
    /\ Val(SentCertificate).signatureType =
           Val(ReceivedCertificate).signatureType
    /\ Val(SentCertificate).signature = Val(ReceivedCertificate).signature
    /\ Val(SentCertificate).padding = Val(ReceivedCertificate).padding

(* C3, as stated: for every Connect-Response with result 0, the ServerData *)
(* sent to the client carries a certificate with the session's RSA key as  *)
(* public key and the other fields of the real server's certificate.       *)
C3_AlwaysCertificate ==
    AcceptedResponseHandled =>
        /\ ReceivedCertificate # None
        /\ CertificateSubstituted

(* C3, amended: for a Connect-Response with result 0 whose ServerData      *)
(* carries a certificate, the certificate sent to the client has the       *)
(* session's RSA key as public key and the other fields of the server's;   *)
(* when the server sent no certificate, none is sent to the client.  The   *)
(* key is the one made at construction, and it is the key                  *)
(* onSecurityExchangeReceived decrypts the client random with: a random    *)
(* encrypted for the key of the certificate sent comes out as it went in.  *)
C3_CertificateSubstituted ==
    /\ rc4RSAKey = MITMKey
    /\ AcceptedResponseHandled =>
           IF ReceivedCertificate # None
           THEN CertificateSubstituted
           ELSE SentCertificate = None
    /\ (last.op = "onSecurityExchangeReceived"
        /\ Val(last.arg).clientRandom =
               Reverse(<<MITMKey>> \o Reverse(ClientRandom))) =>
           securitySettings.clientRandom = Some(ClientRandom)

(* The server's certificate has been replaced, and the client random of a  *)
(* client that used the replaced key has been decrypted.                   *)
C3_Witness ==
    /\ last.op = "onSecurityExchangeReceived"
    /\ securitySettings.clientRandom = Some(ClientRandom)
    /\ serverData # None
    /\ Val(serverData).security.serverCertificate # None
    /\ Val(Val(serverData).security.serverCertificate).publicKey = MITMKey
    /\ ServerCertificate.publicKey # MITMKey

(* A Channel-Join Confirm the handler that ran last wrote to the client. *)
JoinConfirms ==
    { out[k] : k \in { j \in DOMAIN out : out[j].type = "ChannelJoinConfirm" } }

C5_ConfirmAdvertisesTLS ==
    /\ useTLS = tcp.tls
    /\ useTLS => confirmSent
    /\ last.op = "onConnectionConfirm" =>
           LET tls ==
                   /\ Val(originalNegotiationPDU).requestedProtocols # None
                   /\ Val(Val(originalNegotiationPDU).requestedProtocols) % 2
                          = 1
           IN /\ Len(out) = 1
              /\ out[1].type = "ConnectionConfirm"
              /\ out[1].payload.protocols =
                     (IF tls THEN NegotiationProtocols_SSL
                      ELSE NegotiationProtocols_NONE)
              /\ tls => /\ useTLS
                        /\ tcp.tls
                        /\ calls = <<"x224.sendConnectionConfirm",
                                     "tcp.startTLS">>
              /\ ~tls => calls = <<"x224.sendConnectionConfirm">>

(* A client that asked for SSL has been sent a confirm advertising SSL,    *)
(* and the transport is wrapped in TLS.                                    *)
C5_Witness ==
    /\ last.op = "onConnectionConfirm"
    /\ out[1].payload.protocols = NegotiationProtocols_SSL
    /\ useTLS
    /\ tcp.tls

(* The CONNECTION_CLOSE markers recorded so far. *)
CloseMarkers ==
    Cardinality({ k \in DOMAIN recorder : recorder[k] = "CONNECTION_CLOSE" })

(* The handlers that do nothing but call self.disconnect(). *)
DisconnectHandlers ==
    { "onDisconnectRequest", "onDisconnectProviderUltimatum",
      "onUnknownTPKTHeader", "serverDisconnected" }

(* C6: calling disconnect() twice is calling it once.  In every reachable  *)
(* state a second disconnect() changes nothing the first has not changed   *)
(* and cancels no connector; over a whole session one CONNECTION_CLOSE     *)
(* marker is recorded, when the client-facing TCP is closed, and no        *)
(* connector is cancelled more than once.                                  *)
C6_DisconnectIdempotent ==
    /\ LET once == disconnect(tcp, clientConnector, halves)
           twice == disconnect(once.tcp, once.clientConnector, once.halves)
       IN /\ twice.tcp = once.tcp
          /\ twice.clientConnector = once.clientConnector
          /\ twice.halves = once.halves
          /\ twice.calls = <<"tcp.disconnect">>
    /\ CloseMarkers = (IF tcp.state = "closed" THEN 1 ELSE 0)
    /\ \A i \in DOMAIN halves : halves[i].cancels <= 1

(* disconnect() has run on a session that disconnect() had already         *)
(* disconnected: the connector was cancelled by the earlier call, and      *)
(* this call cancelled nothing.                                            *)
C6_Witness ==
    /\ last.op \in DisconnectHandlers
    /\ calls = <<"tcp.disconnect">>
    /\ tcp.state = "closing"
    /\ clientConnector = 0
    /\ \E i \in DOMAIN halves : halves[i].cancels = 1
    /\ CloseMarkers = 0

(* C7: when the real server's Connect-Response has a result other than 0,  *)
(* onConnectResponse forwards it unchanged, does not touch the ServerData, *)
(* and the session disconnects.                                            *)
C7_RefusalDisconnects ==
    (last.op = "onConnectResponse" /\ Val(last.arg).result # 0) =>
        /\ out = <<[type |-> "MCSConnectResponse", pdu |-> Val(last.arg)]>>
        /\ calls = <<"mcs.send">>
        /\ tcp.state # "open"

(* C8: when the outbound connect has failed, the client-facing connection  *)
(* is disconnected, and a session whose only connect failed has sent no    *)
(* Connection Confirm.                                                     *)
C8_FailedConnectDisconnects ==
    /\ last.op = "clientConnectionFailed" => tcp.state # "open"
    /\ (Len(halves) = 1 /\ halves[1].connector = "failed") => ~confirmSent

(* The events that tear the session down. *)
TeardownEvents ==
    { "onDisconnection", "onDisconnectRequest",
      "onDisconnectProviderUltimatum", "onUnknownTPKTHeader" }

(* The client-facing TCP is closed, self.clientConnector is cancelled and  *)
(* cleared, and a CONNECTION_CLOSE marker is recorded.                     *)
TornDown ==
    /\ tcp.state = "closed"
    /\ clientConnector = 0
    /\ halves # <<>> =>
           /\ halves[Len(halves)].connector = "disconnected"
           /\ halves[Len(halves)].cancels = 1
    /\ CloseMarkers >= 1

(* C9: a client TCP close, an X.224 Disconnect Request, an MCS             *)
(* Disconnect-Provider Ultimatum and an unknown TPKT header each lead to   *)
(* a state where the client-facing TCP is closed, the outbound connector,  *)
(* if there is one, is cancelled and cleared, and a CONNECTION_CLOSE       *)
(* marker is recorded.                                                     *)
C9_TeardownReached == (last.op \in TeardownEvents) ~> TornDown

(* A Disconnect Request was handled with a connector outstanding, and the  *)
(* session is torn down.                                                   *)
C9_Witness ==
    /\ TornDown
    /\ halves # <<>>
    /\ last.op = "onDisconnection"
    /\ Val(last.arg) = "done"

(* The calls of a handler that close a socket or a connector. *)
ClosingCalls ==
    { "tcp.disconnect", "client.disconnect", "clientConnector.disconnect" }

(* C10: in every teardown cascade, from disconnect() or from               *)
(* onDisconnection, the CONNECTION_CLOSE marker is recorded first, then    *)
(* the client side is closed, then the server side: nothing is closed      *)
(* before the marker is recorded.                                          *)
C10_MarkerFirst ==
    (\E k \in DOMAIN calls : calls[k] \in ClosingCalls) =>
        /\ calls[1] = "recorder.record"
        /\ \A j, k \in DOMAIN calls :
               (calls[j] \in {"tcp.disconnect", "client.disconnect"}
                /\ calls[k] = "clientConnector.disconnect") => j < k

(* C11: as long as onConnectionConfirm has not been called, nothing has    *)
(* been written to the client: no confirm, no MCS PDU, no other data.      *)
(* Every handler that runs before the confirm is written writes nothing.   *)
C11_SilentUntilConfirm == ~confirmReported => out = <<>>

(* Before any confirm, with a client half connected, the client's          *)
(* Channel-Join Request was handled and nothing was written.               *)
C11_Witness ==
    /\ ~confirmReported
    /\ client # 0
    /\ last.op = "onChannelJoinRequest"
    /\ out = <<>>

(* x with the FIPS bit cleared and every other bit as it was. *)
WithoutFIPS(x) ==
    IF (x \div ENCRYPTION_FIPS) % 2 = 1 THEN x - ENCRYPTION_FIPS ELSE x

(* The place of a call among the calls of the handler that ran last, 0 if  *)
(* it made no such call.                                                   *)
CallAt(name) ==
    IF \E k \in DOMAIN calls : calls[k] = name
    THEN CHOOSE k \in DOMAIN calls : calls[k] = name
    ELSE 0

(* C12: the ClientData onConnectInitial hands to the client half has the   *)
(* FIPS bit cleared in encryptionMethods and in extEncryptionMethods and   *)
(* every other bit of both unchanged, and it is handed on only after both  *)
(* fields were transformed; a Connect-Initial that is not handled hands    *)
(* nothing on.                                                             *)
C12_FIPSClearedBeforeHandOff ==
    /\ (last.op = "onConnectInitial" /\ ~last.raised) =>
           /\ handed =
                  <<[encryptionMethods |-> WithoutFIPS(Val(last.arg)[1]),
                     extEncryptionMethods |-> WithoutFIPS(Val(last.arg)[2])]>>
           /\ CallAt("clear FIPS") > 0
           /\ CallAt("clear FIPS") < CallAt("client.onConnectInitial")
    /\ (last.op # "onConnectInitial" \/ last.raised) => handed = <<>>

(* A Connect-Initial offering FIPS among other methods has been handed to  *)
(* the client half without FIPS.                                           *)
C12_Witness ==
    /\ last.op = "onConnectInitial"
    /\ ~last.raised
    /\ Val(last.arg) = <<27, ENCRYPTION_FIPS>>
    /\ handed = <<[encryptionMethods |-> 11, extEncryptionMethods |-> 0]>>

(* The PDUs of one type the handler that ran last wrote to the client. *)
Written(type) ==
    { out[k] : k \in { j \in DOMAIN out : out[j].type = type } }

(* C13: what is delegated to the client half is answered only by its       *)
(* outcome callback.  An Attach-User Confirm is written only by            *)
(* onAttachConfirmed, as a success with the user's ID, or by               *)
(* onAttachRefused, as a failure; a Channel-Join Confirm for the I/O       *)
(* channel only by onChannelJoinAccepted, with result 0, or by             *)
(* onChannelJoinRefused, with the result reported.  onAttachUserRequest    *)
(* and onChannelJoinRequest for the I/O channel write nothing.             *)
C13_AnsweredAfterOutcome ==
    /\ \A c \in Written("AttachUserConfirm") :
           \/ /\ last.op = "onAttachConfirmed"
              /\ c.success
              /\ c.param = Val(last.arg)
           \/ /\ last.op = "onAttachRefused"
              /\ ~c.success
              /\ c.param = Val(last.arg)
    /\ \A c \in Written("ChannelJoinConfirm") :
           c.channelID = Val(serverData).network.mcsChannelID =>
               \/ /\ last.op = "onChannelJoinAccepted"
                  /\ c.result = 0
                  /\ c.initiator = Val(last.arg).userID
               \/ /\ last.op = "onChannelJoinRefused"
                  /\ c.result = Val(last.arg).result
                  /\ c.initiator = Val(last.arg).userID
    /\ last.op = "onAttachUserRequest" => out = <<>>
    /\ (/\ last.op = "onChannelJoinRequest"
        /\ ~last.raised
        /\ Val(last.arg).channelID = Val(serverData).network.mcsChannelID) =>
           /\ out = <<>>
           /\ calls = <<"client.onChannelJoinRequest">>
    /\ last.op = "onAttachConfirmed" =>
           out = <<[type |-> "AttachUserConfirm", success |-> TRUE,
                    param |-> Val(last.arg)]>>
    /\ last.op = "onAttachRefused" =>
           out = <<[type |-> "AttachUserConfirm", success |-> FALSE,
                    param |-> Val(last.arg)]>>

(* The client half has refused the join of the I/O channel it was asked    *)
(* to join, and the client was told the result it reported.                *)
C13_Witness ==
    /\ last.op = "onChannelJoinRefused"
    /\ Val(last.arg).channelID = Val(serverData).network.mcsChannelID
    /\ out # <<>>
    /\ out[1].result = RT_USER_REJECTED

(* The handlers that parse what they are given. *)
ParsingHandlers ==
    { "onConnectionRequest", "onConnectInitial", "onConnectResponse" }

(* C14: a parse error raised while a Connection Request, a Connect-Initial *)
(* or a Connect-Response is handled aborts the session with disconnect():  *)
(* the client-facing TCP is closed and the outbound connector cancelled,   *)
(* and the failing PDU is not passed on.                                   *)
C14_ParseErrorDisconnects ==
    (last.op \in ParsingHandlers /\ last.raised) =>
        /\ tcp.state # "open"
        /\ clientConnector = 0
        /\ out = <<>>
        /\ handed = <<>>

(* C15: negotiation transitions are one-shot.  A second Connection Request *)
(* does not run the transition again: at most one outbound connect is      *)
(* ever started, which captures originalNegotiationPDU at most once, and   *)
(* no connector is replaced in self.clientConnector without having been    *)
(* cancelled.                                                              *)
C15_NegotiationOneShot ==
    /\ Len(halves) <= 1
    /\ \A i \in DOMAIN halves :
           i # clientConnector => halves[i].cancels >= 1

(* The session has a TLS security layer, and the layer expects a security  *)
(* header.                                                                 *)
TLSLayerBuilt == securityLayer # None /\ Val(securityLayer).kind = "TLS"
HeaderExpected == Val(securityLayer).securityHeaderExpected

(* C16: in a TLS session securityHeaderExpected is true once buildChannel  *)
(* has built the I/O channel and until onLicensingPDU is handled, false    *)
(* after onLicensingPDU, and never true again afterwards.                  *)
C16_HeaderExpectedUntilLicensing ==
    [][/\ (~TLSLayerBuilt /\ TLSLayerBuilt') => HeaderExpected'
       /\ (TLSLayerBuilt /\ HeaderExpected /\ last'.op # "onLicensingPDU")
              => HeaderExpected'
       /\ (TLSLayerBuilt /\ last'.op = "onLicensingPDU") => ~HeaderExpected'
       /\ (TLSLayerBuilt /\ ~HeaderExpected) =>
              (TLSLayerBuilt' /\ ~HeaderExpected')]_vars

\* ---------------------------------------------------------------------
\* C17: in a Standard Security session the crypter proxy holds derived
\* keys only when both the server security data (serverSecurityReceived,
\* from onConnectResponse) and the client random (setClientRandom, from
\* onSecurityExchangeReceived) have been given to the security settings,
\* the keys being the ones derived from exactly those two; and every
\* onSecurityExchangeReceived finds the proxy already subscribed by
\* buildChannel, so that the proxy holds the keys as soon as the handler
\* returns.
StandardSecurity ==
    securityLayer # None /\ Val(securityLayer).kind = "NonTLS"

ProxyHasKeys == crypterProxy # None /\ Val(crypterProxy).keys # None

C17_KeysAfterBothRandoms ==
    StandardSecurity =>
        /\ ProxyHasKeys =>
               /\ securitySettings.serverSecurity # None
               /\ securitySettings.clientRandom # None
               /\ Val(crypterProxy).keys = DerivedKeys(securitySettings)
        /\ last.op = "onSecurityExchangeReceived" =>
               /\ securitySettings.observer
               /\ ProxyHasKeys

C17_Witness ==
    /\ StandardSecurity
    /\ last.op = "onSecurityExchangeReceived"
    /\ ProxyHasKeys
    /\ Val(Val(crypterProxy).keys).clientRandom =
           Val(securitySettings.clientRandom)

\* ---------------------------------------------------------------------
\* C18: once disconnect() has run (the client-facing transport has been
\* told to close), a callback the client half still delivers,
\* onConnectionConfirm, onConnectResponse, onAttachConfirmed or
\* onChannelJoinAccepted, is a no-op: it writes nothing to the client and
\* it does not start TLS.
LateCallbacks ==
    {"onConnectionConfirm", "onConnectResponse", "onAttachConfirmed",
     "onChannelJoinAccepted"}

C18_LateCallbacksAreNoOps ==
    (tcp.state = "closing" /\ last.op \in LateCallbacks) =>
        /\ out = <<>>
        /\ CallAt("tcp.startTLS") = 0

\* ---------------------------------------------------------------------
\* C19: the file handle opened at construction is closed by teardown:
\* once a disconnect cascade has completed (onDisconnection has run, or a
\* handler has run disconnect()), the session's file handle is closed.
TeardownCompleted ==
    \/ tcp.state = "closed"
    \/ CallAt("tcp.disconnect") # 0

C19_FileHandleClosedByTeardown ==
    TeardownCompleted => fileHandle = "closed"

\* ---------------------------------------------------------------------
\* C20: whatever the order of client PDUs and client-half callbacks, a
\* handler that has just run found the state it reads already set:
\* onChannelJoinRequest and buildChannel found serverData,
\* onConnectionConfirm and onConnectResponse found the captured
\* originalNegotiationPDU, onConnectInitial and onAttachUserRequest found
\* the client half, and onLicensingPDU found the security and licensing
\* layers.
C20_StateSetBeforeRead ==
    /\ (last.op = "onChannelJoinRequest" \/ CallAt("buildChannel") # 0)
           => serverData # None
    /\ last.op \in {"onConnectionConfirm", "onConnectResponse"}
           => originalNegotiationPDU # None
    /\ last.op \in {"onConnectInitial", "onAttachUserRequest"}
           => client # 0
    /\ last.op = "onLicensingPDU"
           => (securityLayer # None /\ licensingLayer # None)

====
